---------------------------- MODULE Spec2Model ----------------------------
(***************************************************************************)
(* zip-fill: the embeddable ZipFill client (load / lookup) and the REST    *)
(* server (normalizeZip / lookupZip / routes), modelled from the source.   *)
(*                                                                         *)
(* Strings are sequences of one-character strings, JavaScript values are   *)
(* tagged records, `null'/`undefined' results are records of kind "null".  *)
(***************************************************************************)
EXTENDS Integers, Sequences, FiniteSets, TLC

VARIABLES
    \* ---- client: one ZipFill instance -----------------------------------
    data,         \* this.data: NoData (null) or a loaded table
    loaded,       \* this.loaded
    loadPromise,  \* this.loadPromise: 0 (null) or the index of a load operation
    promises,     \* the load operations started so far (the async IIFEs)
    calls,        \* the load() calls issued so far and what each caller observed
    fetchLog,     \* the urls handed to fetch(), in order
    lookupLog,    \* the lookup() calls made so far, with what each returned
    \* ---- server: the express application -------------------------------
    zipData,      \* the table read at start-up
    req,          \* the request handled last
    res,          \* the response sent for it
    lookupCalls,  \* how many times lookupZip ran while handling it
    \* ---- one application of a function (normalization, lookup) ----------
    fnArg,        \* its argument
    fnRet,        \* what it returned
    \* ---- metrics: the one Metrics instance ------------------------------
    requests,       \* this.requests: total, byEndpoint, byStatus, byMethod
    responseTimes,  \* this.responseTimes: total, byEndpoint
    lookups,        \* this.lookups: total, found, notFound, topZips, topStates
    hourlyRequests, \* this.hourlyRequests: hour key -> count
    clock,          \* the hour the wall clock showed at the last call
    lastCall,       \* the last recordRequest / recordLookup call and how it ended
    nCalls,         \* how many such calls were made
    arrivals,       \* the requests handed to recordRequest, in arrival order
    workload,       \* the traffic pattern of a long run
    handled,        \* the requests the express application answered, and the
                    \* lookupZip calls it made for them
    \* ---- bind: one binding of the instance to a form ---------------------
    bindOpts,     \* the options handed to bind()
    binding,      \* what bind() returned, whether its listeners are attached
    dom,          \* the form elements
    lastEvent     \* the event dispatched last and what the binding did on it

clientVars == <<data, loaded, loadPromise, promises, calls, fetchLog, lookupLog>>
serverVars == <<zipData, req, res, lookupCalls>>
fnVars     == <<fnArg, fnRet>>
metricsVars == <<requests, responseTimes, lookups, hourlyRequests, clock, lastCall,
                 nCalls, arrivals, workload>>
bindVars   == <<bindOpts, binding, dom, lastEvent>>
vars       == <<data, loaded, loadPromise, promises, calls, fetchLog, lookupLog,
                zipData, req, res, lookupCalls, fnArg, fnRet,
                requests, responseTimes, lookups, hourlyRequests, clock, lastCall,
                nCalls, arrivals, workload, handled, bindOpts, binding, dom, lastEvent>>

---------------------------------------------------------------------------
(* Bounds of the model *)

\* longest string among the enumerated raw inputs
MaxStrLen == 6
\* largest number among the enumerated raw inputs
MaxNum == 11
\* load() calls issued on the instance
MaxCalls == 3
\* lookup() calls recorded on the instance
MaxLookups == 3
\* longest exhaustively enumerated batch body
MaxShortBatch == 2

---------------------------------------------------------------------------
(* JavaScript values and strings *)

Digits == {"0", "1", "2", "3", "4", "5", "6", "7", "8", "9"}

\* the white space String.prototype.trim strips (the part of it the inputs use)
WhiteSpace == {" ", "\t"}

Str(s)    == [t |-> "str", s |-> s, n |-> 0]
Num(n)    == [t |-> "num", s |-> <<>>, n |-> n]
JsNull    == [t |-> "null", s |-> <<>>, n |-> 0]
Undefined == [t |-> "undef", s |-> <<>>, n |-> 0]

DigitChar(d) == CASE d = 0 -> "0" [] d = 1 -> "1" [] d = 2 -> "2" [] d = 3 -> "3"
                  [] d = 4 -> "4" [] d = 5 -> "5" [] d = 6 -> "6" [] d = 7 -> "7"
                  [] d = 8 -> "8" [] d = 9 -> "9"

RECURSIVE NatToString(_)
NatToString(n) == IF n < 10 THEN <<DigitChar(n)>>
                  ELSE Append(NatToString(n \div 10), DigitChar(n % 10))

\* String(v)
JsString(v) == CASE v.t = "str"   -> v.s
                 [] v.t = "num"   -> NatToString(v.n)
                 [] v.t = "null"  -> <<"n", "u", "l", "l">>
                 [] v.t = "undef" -> <<"u", "n", "d", "e", "f", "i", "n", "e", "d">>

\* !v is false
Truthy(v) == CASE v.t = "str"   -> v.s # <<>>
               [] v.t = "num"   -> v.n # 0
               [] v.t = "null"  -> FALSE
               [] v.t = "undef" -> FALSE

RECURSIVE TrimStart(_)
TrimStart(s) == IF s = <<>> THEN s
                ELSE IF Head(s) \in WhiteSpace THEN TrimStart(Tail(s)) ELSE s

RECURSIVE TrimEnd(_)
TrimEnd(s) == IF s = <<>> THEN s
              ELSE IF s[Len(s)] \in WhiteSpace THEN TrimEnd(SubSeq(s, 1, Len(s) - 1)) ELSE s

\* s.trim()
Trim(s) == TrimEnd(TrimStart(s))

\* s.padStart(n, c) for a one-character c
PadStart(s, n, c) ==
    IF Len(s) >= n THEN s
    ELSE [i \in 1 .. n |-> IF i <= n - Len(s) THEN c ELSE s[i - (n - Len(s))]]

\* s.slice(0, n)
SliceFirst(s, n) == SubSeq(s, 1, IF Len(s) < n THEN Len(s) ELSE n)

\* /^\d{5}$/.test(s)
IsFiveDigits(s) == Len(s) = 5 /\ \A i \in 1 .. Len(s) : s[i] \in Digits

---------------------------------------------------------------------------
(* Locations and lookup tables (the artifact zip-data.min.json) *)

LocA == [city |-> "Beverly Hills", state |-> "CA", county |-> "Los Angeles"]
LocB == [city |-> "Schenectady", state |-> "NY", county |-> "Schenectady"]
LocC == [city |-> "Rotterdam", state |-> "NY", county |-> "Schenectady"]

\* a table value: a single Location object, or an array of Locations
Obj(l)  == [isArray |-> FALSE, arr |-> <<>>, obj |-> l]
Arr(ls) == [isArray |-> TRUE, arr |-> ls, obj |-> LocA]

Key00000 == <<"0", "0", "0", "0", "0">>
Key00001 == <<"0", "0", "0", "0", "1">>
Key00011 == <<"0", "0", "0", "1", "1">>
Key00111 == <<"0", "0", "1", "1", "1">>
Key11111 == <<"1", "1", "1", "1", "1">>

TableA == (Key00001 :> Obj(LocA)) @@ (Key00011 :> Arr(<<LocA>>))
            @@ (Key11111 :> Arr(<<LocB, LocC>>))
TableB == (Key00000 :> Arr(<<LocB, LocC, LocA>>)) @@ (Key00001 :> Arr(<<LocC>>))
            @@ (Key00111 :> Obj(LocB))
TableC == [k \in {} |-> Obj(LocA)]

Tables == {TableA, TableB, TableC}

---------------------------------------------------------------------------
(* Results of a lookup *)

\* null (client: not ready, invalid, absent)
Null == [kind |-> "null", zip |-> JsNull, locations |-> <<>>, hasMultiple |-> FALSE,
         error |-> ""]

\* { zip, locations, hasMultiple }
Found(zip, locations, hasMultiple) ==
    [kind |-> "found", zip |-> Str(zip), locations |-> locations,
     hasMultiple |-> hasMultiple, error |-> ""]

\* { error, zip }
ErrorDescriptor(error, zip) ==
    [kind |-> "error", zip |-> zip, locations |-> <<>>, hasMultiple |-> FALSE,
     error |-> error]

\* Array.isArray(locations) ? locations : [locations]
LocationsOf(v) == IF v.isArray THEN v.arr ELSE <<v.obj>>

\* a slip: every array counts as a multi-city entry
HasMultipleOf_AnyArray(v) == v.isArray

\* Array.isArray(locations) && locations.length > 1
HasMultipleOf(v) == v.isArray /\ Len(v.arr) > 1

---------------------------------------------------------------------------
(* Client: ZipFill.lookup *)

\* this.data is null, or holds a table
NoData  == [present |-> FALSE, tbl |-> TableC]
Data(t) == [present |-> TRUE, tbl |-> t]

\* a normalized code, or the verdict that the input is no code
Invalid  == [valid |-> FALSE, s |-> <<>>]
Valid(s) == [valid |-> TRUE, s |-> s]

\* const normalizedZip = String(zip).trim().padStart(5, '0').slice(0, 5)
normalizedZip(zip) == SliceFirst(PadStart(Trim(JsString(zip)), 5, "0"), 5)

\* the client's normalization and its validity test
ClientNormalize(zip) ==
    LET nz == normalizedZip(zip)
    IN  IF ~IsFiveDigits(nz) THEN Invalid ELSE Valid(nz)

\* a slip: only the data is tested, not the loaded flag
NotReady_DataOnly == ~data.present

\* if (!this.loaded || !this.data)
NotReady == ~loaded \/ ~data.present

\* lookup(zip)
lookup(zip) ==
    IF NotReady THEN Null
    ELSE LET nz == ClientNormalize(zip)
         IN  IF ~nz.valid THEN Null
             ELSE IF nz.s \notin DOMAIN data.tbl THEN Null
             ELSE Found(nz.s, LocationsOf(data.tbl[nz.s]), HasMultipleOf(data.tbl[nz.s]))

---------------------------------------------------------------------------
(* Server: normalizeZip, lookupZip *)

\* a slip: the input is not trimmed before it is padded
normalizeZip_NoTrim(zip) ==
    IF ~Truthy(zip) THEN Invalid
    ELSE LET normalized == SliceFirst(PadStart(JsString(zip), 5, "0"), 5)
         IN  IF IsFiveDigits(normalized) THEN Valid(normalized) ELSE Invalid

\* function normalizeZip(zip)
normalizeZip(zip) ==
    IF ~Truthy(zip) THEN Invalid
    ELSE LET normalized == SliceFirst(PadStart(Trim(JsString(zip)), 5, "0"), 5)
         IN  IF IsFiveDigits(normalized) THEN Valid(normalized) ELSE Invalid

\* function lookupZip(zip)
lookupZip(zip) ==
    LET normalized == normalizeZip(zip)
    IN  IF ~normalized.valid THEN ErrorDescriptor("Invalid zip code format", zip)
        ELSE IF normalized.s \notin DOMAIN zipData
             THEN ErrorDescriptor("Zip code not found", Str(normalized.s))
        ELSE Found(normalized.s, LocationsOf(zipData[normalized.s]),
                   HasMultipleOf(zipData[normalized.s]))

---------------------------------------------------------------------------
(* Raw inputs *)

InputChars == {"1", " ", "a"}

StringsUpTo(n) == UNION {[1 .. k -> InputChars] : k \in 0 .. n}

\* every raw value a caller may hand to lookup / lookupZip
Inputs == {Str(s) : s \in StringsUpTo(MaxStrLen)} \cup {Num(n) : n \in 0 .. MaxNum}
            \cup {JsNull, Undefined}

---------------------------------------------------------------------------
(* Idle values of the three parts; each specification runs one part *)

NoRequest  == [route |-> "none", hasZip |-> FALSE, zip |-> JsNull,
               zipsKind |-> "missing", zips |-> <<>>]
NoResponse == [status |-> 0, kind |-> "none", result |-> Null, results |-> <<>>,
               error |-> ""]
NoReturn   == [op |-> "none", norm |-> Invalid, result |-> Null]

IdleClient == /\ data = NoData
              /\ loaded = FALSE
              /\ loadPromise = 0
              /\ promises = <<>>
              /\ calls = <<>>
              /\ fetchLog = <<>>
              /\ lookupLog = <<>>

IdleServer == /\ zipData = TableA
              /\ req = NoRequest
              /\ res = NoResponse
              /\ lookupCalls = 0

IdleFn == /\ fnArg = JsNull
          /\ fnRet = NoReturn

\* an empty object {}
EmptyMap == <<>>

NoCall == [op |-> "none", path |-> Undefined, method |-> "", status |-> 0, ms |-> 0,
           now |-> 0, zip |-> <<>>, result |-> Null, outcome |-> "none"]

NoWorkload == [endpoints |-> 0, hourEvery |-> 0]

\* new Metrics(), at hour 0 of the wall clock
NewMetrics ==
    /\ requests = [total |-> 0, byEndpoint |-> EmptyMap, byStatus |-> EmptyMap,
                   byMethod |-> EmptyMap]
    /\ responseTimes = [total |-> <<>>, byEndpoint |-> EmptyMap]
    /\ lookups = [total |-> 0, found |-> 0, notFound |-> 0, topZips |-> EmptyMap,
                  topStates |-> EmptyMap]
    /\ hourlyRequests = EmptyMap
    /\ clock = 0
    /\ lastCall = NoCall
    /\ nCalls = 0
    /\ arrivals = <<>>

IdleMetrics == NewMetrics /\ workload = NoWorkload

NoneHandled == [requests |-> 0, lookups |-> 0]

IdleApp == handled = NoneHandled

NoOptions == [zipFound |-> FALSE, cityInput |-> FALSE, stateInput |-> FALSE,
              countyInput |-> FALSE, citySelect |-> FALSE, onLookup |-> FALSE,
              onMultiple |-> FALSE, onNotFound |-> FALSE]
NotBound  == [ret |-> "none", listening |-> FALSE, detached |-> FALSE]
EmptyForm == [zip |-> <<>>, city |-> "", state |-> "", county |-> "",
              selectDisplay |-> "", cityDisplay |-> "", options |-> <<>>,
              onchange |-> FALSE, onchangeLocations |-> <<>>]
NoEvent   == [kind |-> "none", n |-> 0, afterDetach |-> FALSE, listened |-> FALSE,
              lookups |-> 0, callbacks |-> <<>>, wrote |-> FALSE]

IdleBind == /\ bindOpts = NoOptions
            /\ binding = NotBound
            /\ dom = EmptyForm
            /\ lastEvent = NoEvent

IdleRest == IdleMetrics /\ IdleApp /\ IdleBind

---------------------------------------------------------------------------
(* SpecLookup: one application of the normalization or of a lookup to one  *)
(* raw input, on a loaded client instance and a server holding one table.  *)

InitLookup ==
    /\ zipData \in Tables
    /\ data = Data(zipData)
    /\ loaded = TRUE
    /\ loadPromise = 0
    /\ promises = <<>>
    /\ calls = <<>>
    /\ fetchLog = <<>>
    /\ lookupLog = <<>>
    /\ req = NoRequest
    /\ res = NoResponse
    /\ lookupCalls = 0
    /\ fnArg \in Inputs
    /\ fnRet = NoReturn
    /\ IdleRest

ApplyClientNormalize ==
    /\ fnRet.op = "none"
    /\ fnRet' = [op |-> "ClientNormalize", norm |-> ClientNormalize(fnArg), result |-> Null]
    /\ UNCHANGED <<clientVars, serverVars, fnArg, metricsVars, handled, bindVars>>

ApplyNormalizeZip ==
    /\ fnRet.op = "none"
    /\ fnRet' = [op |-> "normalizeZip", norm |-> normalizeZip(fnArg), result |-> Null]
    /\ UNCHANGED <<clientVars, serverVars, fnArg, metricsVars, handled, bindVars>>

ApplyLookup ==
    /\ fnRet.op = "none"
    /\ fnRet' = [op |-> "lookup", norm |-> Invalid, result |-> lookup(fnArg)]
    /\ UNCHANGED <<clientVars, serverVars, fnArg, metricsVars, handled, bindVars>>

ApplyLookupZip ==
    /\ fnRet.op = "none"
    /\ fnRet' = [op |-> "lookupZip", norm |-> Invalid, result |-> lookupZip(fnArg)]
    /\ UNCHANGED <<clientVars, serverVars, fnArg, metricsVars, handled, bindVars>>

NextLookup == \/ ApplyClientNormalize
              \/ ApplyNormalizeZip
              \/ ApplyLookup
              \/ ApplyLookupZip

SpecLookup == InitLookup /\ [][NextLookup]_vars

---------------------------------------------------------------------------
(* The four normalization steps, stated on their own *)

\* c is t without its leading and trailing white space
IsTrimOf(c, t) ==
    \E i \in 1 .. Len(t) + 1 : \E j \in 0 .. Len(t) :
        /\ i <= j + 1
        /\ c = SubSeq(t, i, j)
        /\ \A k \in 1 .. i - 1 : t[k] \in WhiteSpace
        /\ \A k \in j + 1 .. Len(t) : t[k] \in WhiteSpace
        /\ c # <<>> => (c[1] \notin WhiteSpace /\ c[Len(c)] \notin WhiteSpace)

\* c left-padded with "0" to five characters and cut to its first five
PaddedCut(c) ==
    [k \in 1 .. 5 |-> IF Len(c) >= 5 THEN c[k]
                      ELSE IF k <= 5 - Len(c) THEN "0" ELSE c[k - (5 - Len(c))]]

\* the trimmed text of a raw input
TrimmedText(v) == CHOOSE c \in {SubSeq(JsString(v), i, j) :
                                 i \in 1 .. Len(JsString(v)) + 1, j \in 0 .. Len(JsString(v))} :
                      IsTrimOf(c, JsString(v))

Text123     == <<"1", "2", "3">>
Text1234567 == <<"1", "2", "3", "4", "5", "6", "7">>
Text90210sp == <<" ", "9", "0", "2", "1", "0", " ">>
TextAbc12   == <<"a", "b", "c", "1", "2">>

NormalizeExamples ==
    /\ ClientNormalize(Str(Text123)) = Valid(<<"0", "0", "1", "2", "3">>)
    /\ normalizeZip(Str(Text123)) = Valid(<<"0", "0", "1", "2", "3">>)
    /\ ClientNormalize(Str(Text1234567)) = Valid(<<"1", "2", "3", "4", "5">>)
    /\ normalizeZip(Str(Text1234567)) = Valid(<<"1", "2", "3", "4", "5">>)
    /\ ClientNormalize(Str(Text90210sp)) = Valid(<<"9", "0", "2", "1", "0">>)
    /\ normalizeZip(Str(Text90210sp)) = Valid(<<"9", "0", "2", "1", "0">>)
    /\ ClientNormalize(Str(TextAbc12)) = Invalid
    /\ normalizeZip(Str(TextAbc12)) = Invalid
    /\ ClientNormalize(Num(123)) = Valid(<<"0", "0", "1", "2", "3">>)

\* C5: normalization maps every raw input either to a 5-character all-digit
\* string or to invalid; a valid result is the input coerced to a string,
\* trimmed, left-padded with "0" to five characters and cut to its first five,
\* and it is accepted only if that is five decimal digits (the client accepts
\* exactly then, the server exactly then for a truthy input); "123" gives
\* "00123", "1234567" gives "12345", " 90210 " gives "90210", "abc12" is
\* invalid; a lookup with an invalid code returns not-found (null on the
\* client, an error descriptor on the server).
C5_Normalization ==
    /\ NormalizeExamples
    /\ fnRet.op \in {"ClientNormalize", "normalizeZip"} =>
          LET r == fnRet.norm
              expected == PaddedCut(TrimmedText(fnArg))
          IN  /\ IsTrimOf(TrimmedText(fnArg), JsString(fnArg))
              /\ r.valid => (r.s = expected /\ IsFiveDigits(r.s))
              /\ ~r.valid => r = Invalid
              /\ fnRet.op = "ClientNormalize" => (r.valid <=> IsFiveDigits(expected))
              /\ fnRet.op = "normalizeZip" =>
                    (r.valid <=> (Truthy(fnArg) /\ IsFiveDigits(expected)))
    /\ (fnRet.op = "lookup" /\ ~IsFiveDigits(PaddedCut(TrimmedText(fnArg))))
          => fnRet.result = Null
    /\ (fnRet.op = "lookupZip" /\ ~IsFiveDigits(PaddedCut(TrimmedText(fnArg))))
          => (fnRet.result.kind = "error" /\ fnRet.result.zip = fnArg)

\* C5 witness: the server normalized a padded six-character input, trimming
\* it and left-padding it to a valid code that differs from the input text
C5_Witness ==
    /\ fnRet.op = "normalizeZip"
    /\ fnRet.norm.valid
    /\ fnArg.t = "str"
    /\ Len(fnArg.s) = 6
    /\ fnArg.s[1] \in WhiteSpace
    /\ fnRet.norm.s[1] = "0"

\* C6: every found Lookup Result, of the client's lookup and of the server's
\* lookupZip, for a table value that is a single Location object or an array
\* of Locations, has hasMultiple true exactly when locations.length > 1; an
\* entry holding exactly one Location yields hasMultiple = false and
\* locations of length 1; locations are the entry's Locations in order and
\* result.zip is the normalized key.
C6_HasMultiple ==
    (fnRet.op \in {"lookup", "lookupZip"} /\ fnRet.result.kind = "found") =>
        LET r == fnRet.result
            k == r.zip.s
        IN  /\ r.zip.t = "str"
            /\ k = PaddedCut(TrimmedText(fnArg))
            /\ IsFiveDigits(k)
            /\ k \in DOMAIN zipData
            /\ r.hasMultiple <=> (Len(r.locations) > 1)
            /\ ~zipData[k].isArray =>
                  (r.locations = <<zipData[k].obj>> /\ ~r.hasMultiple)
            /\ zipData[k].isArray => r.locations = zipData[k].arr
            /\ (zipData[k].isArray /\ Len(zipData[k].arr) = 1) =>
                  (Len(r.locations) = 1 /\ ~r.hasMultiple)

\* C6 witness: the server found an entry that is an array of exactly one
\* Location and reported hasMultiple = false
C6_Witness ==
    /\ fnRet.op = "lookupZip"
    /\ fnRet.result.kind = "found"
    /\ zipData[fnRet.result.zip.s].isArray
    /\ Len(fnRet.result.locations) = 1
    /\ ~fnRet.result.hasMultiple

---------------------------------------------------------------------------
(* Client: ZipFill.load *)

\* the url arguments of load(); "" stands for an omitted (null) url
UrlArgs == {"", "/zip-data.min.json"}

\* _getDefaultDataUrl()
DefaultDataUrl == "https://unpkg.com/zip-fill@latest/dist/zip-data.min.json"

\* const dataUrl = url || this._getDefaultDataUrl()
DataUrl(url) == IF url = "" THEN DefaultDataUrl ELSE url

NoError == [kind |-> "", op |-> 0]

\* if (this.loaded) return this
AlreadyLoaded == loaded

\* a slip: a load in flight is not shared, every call starts its own
InFlight_NeverShared == FALSE

\* if (this.loadPromise) return this.loadPromise
InFlight == loadPromise # 0

\* a slip: data handed to the constructor is not looked at
HasData_Never == FALSE

\* if (this.data), inside the load operation
HasData == data.present

Settled(pc) == pc \in {"resolved", "rejected"}

\* what the instance looked like when a load() call was issued
NewCall(follows, fetched) ==
    [follows |-> follows, fetched |-> fetched,
     early |-> ~loaded /\ \A p \in 1 .. Len(promises) : ~Settled(promises[p].pc),
     hadData |-> data.present,
     afterSuccess |-> loaded,
     afterFailure |-> ~loaded /\ \E p \in 1 .. Len(promises) : promises[p].pc = "rejected",
     state |-> "pending", err |-> NoError]

\* load(url), up to the first await of the operation it starts
Load(url) ==
    /\ Len(calls) < MaxCalls
    /\ IF AlreadyLoaded
       THEN /\ calls' = Append(calls, NewCall(0, FALSE))
            /\ UNCHANGED <<loaded, loadPromise, promises, fetchLog>>
       ELSE IF InFlight
       THEN /\ calls' = Append(calls, NewCall(loadPromise, FALSE))
            /\ UNCHANGED <<loaded, loadPromise, promises, fetchLog>>
       ELSE LET p == Len(promises) + 1
            IN  /\ loadPromise' = p
                /\ calls' = Append(calls, NewCall(p, ~HasData))
                /\ IF HasData
                   THEN /\ loaded' = TRUE
                        /\ promises' = Append(promises,
                               [pc |-> "resolved", err |-> NoError])
                        /\ UNCHANGED fetchLog
                   ELSE /\ promises' = Append(promises,
                               [pc |-> "fetching", err |-> NoError])
                        /\ fetchLog' = Append(fetchLog, DataUrl(url))
                        /\ UNCHANGED loaded
    /\ UNCHANGED <<data, lookupLog, serverVars, fnVars, metricsVars, handled, bindVars>>

\* await fetch(dataUrl) rejects: the operation rethrows the error
FetchRejects(p) ==
    /\ promises[p].pc = "fetching"
    /\ promises' = [promises EXCEPT ![p].pc = "rejected",
                                    ![p].err = [kind |-> "network", op |-> p]]
    /\ UNCHANGED <<data, loaded, loadPromise, calls, fetchLog, lookupLog,
                   serverVars, fnVars, metricsVars, handled, bindVars>>

\* await fetch(dataUrl) resolves; if (!response.ok) throw new Error(...)
FetchResponds(p, ok) ==
    /\ promises[p].pc = "fetching"
    /\ promises' = IF ok THEN [promises EXCEPT ![p].pc = "parsing"]
                   ELSE [promises EXCEPT ![p].pc = "rejected",
                                         ![p].err = [kind |-> "status", op |-> p]]
    /\ UNCHANGED <<data, loaded, loadPromise, calls, fetchLog, lookupLog,
                   serverVars, fnVars, metricsVars, handled, bindVars>>

\* this.data = await response.json(); this.loaded = true; return this
JsonResolves(p, t) ==
    /\ promises[p].pc = "parsing"
    /\ data' = Data(t)
    /\ loaded' = TRUE
    /\ promises' = [promises EXCEPT ![p].pc = "resolved"]
    /\ UNCHANGED <<loadPromise, calls, fetchLog, lookupLog, serverVars, fnVars, metricsVars, handled, bindVars>>

\* await response.json() rejects: the operation rethrows the error
JsonRejects(p) ==
    /\ promises[p].pc = "parsing"
    /\ promises' = [promises EXCEPT ![p].pc = "rejected",
                                    ![p].err = [kind |-> "parse", op |-> p]]
    /\ UNCHANGED <<data, loaded, loadPromise, calls, fetchLog, lookupLog,
                   serverVars, fnVars, metricsVars, handled, bindVars>>

\* the promise load() returned settles: with the instance (return this), or
\* as the load operation it follows did (return this.loadPromise)
Settle(c) ==
    /\ calls[c].state = "pending"
    /\ IF calls[c].follows = 0
       THEN calls' = [calls EXCEPT ![c].state = "resolved"]
       ELSE /\ Settled(promises[calls[c].follows].pc)
            /\ calls' = [calls EXCEPT ![c].state = promises[calls[c].follows].pc,
                                      ![c].err = promises[calls[c].follows].err]
    /\ UNCHANGED <<data, loaded, loadPromise, promises, fetchLog, lookupLog,
                   serverVars, fnVars, metricsVars, handled, bindVars>>

\* the raw codes looked up on the instance
LookupArgs == {Num(1), Str(<<"1", "1", "1", "1", "1">>), Str(<<"a">>)}

\* lookup(zip) on the instance, in whatever state it is
Lookup(zip) ==
    /\ Len(lookupLog) < MaxLookups
    /\ lookupLog' = Append(lookupLog,
           [zip |-> zip, result |-> lookup(zip), loaded |-> loaded,
            dataPresent |-> data.present])
    /\ UNCHANGED <<data, loaded, loadPromise, promises, calls, fetchLog,
                   serverVars, fnVars, metricsVars, handled, bindVars>>

\* new ZipFill(data): without data, or with preloaded data
Init ==
    /\ data \in {NoData} \cup {Data(t) : t \in Tables}
    /\ loaded = FALSE
    /\ loadPromise = 0
    /\ promises = <<>>
    /\ calls = <<>>
    /\ fetchLog = <<>>
    /\ lookupLog = <<>>
    /\ IdleServer
    /\ IdleFn
    /\ IdleRest

Next == \/ \E url \in UrlArgs : Load(url)
        \/ \E p \in 1 .. Len(promises) : FetchRejects(p)
        \/ \E p \in 1 .. Len(promises) : \E ok \in BOOLEAN : FetchResponds(p, ok)
        \/ \E p \in 1 .. Len(promises) : \E t \in Tables : JsonResolves(p, t)
        \/ \E p \in 1 .. Len(promises) : JsonRejects(p)
        \/ \E c \in 1 .. Len(calls) : Settle(c)
        \/ \E zip \in LookupArgs : Lookup(zip)

Spec == Init /\ [][Next]_vars

---------------------------------------------------------------------------
(* Claims about load *)

CallIds == 1 .. Len(calls)

\* the calls issued on an instance without preloaded data before any load
\* operation completed
EarlyCalls == {c \in CallIds : calls[c].early /\ ~calls[c].hadData}

\* C1: for any number of load() calls issued on an instance without preloaded
\* data before the first of them completes, exactly one fetch is issued and
\* every caller observes the same outcome: all follow the one load operation,
\* and all resolve (with the loaded instance) or all reject with the same
\* error.
C1_SingleFlight ==
    /\ EarlyCalls # {} => Cardinality({c \in EarlyCalls : calls[c].fetched}) = 1
    /\ (\A c \in CallIds : calls[c].early) =>
          Len(fetchLog) = Cardinality({c \in EarlyCalls : calls[c].fetched})
    /\ \A c, d \in EarlyCalls :
          /\ calls[c].follows = calls[d].follows
          /\ (calls[c].state # "pending" /\ calls[d].state # "pending") =>
                (calls[c].state = calls[d].state /\ calls[c].err = calls[d].err)
    /\ \A c \in EarlyCalls :
          /\ calls[c].state = "resolved" => (loaded /\ calls[c].err = NoError)
          /\ calls[c].state = "rejected" => calls[c].err # NoError

\* C1 witness: three calls were issued while the one fetch was in flight and
\* all three observed the same rejection
C1_Witness ==
    /\ Len(calls) >= 3
    /\ \A c \in 1 .. 3 : c \in EarlyCalls /\ calls[c].state = "rejected"
    /\ Len(fetchLog) = 1

\* C2: when load() fails, the call rejects, the instance stays not loaded, and
\* a retry is permitted: a later load() call starts a new fetch.
C2_RetryAfterFailure ==
    /\ \A c \in CallIds :
          (calls[c].follows # 0 /\ calls[c].state = "rejected") =>
              promises[calls[c].follows].pc = "rejected"
    /\ (promises # <<>> /\ \A p \in 1 .. Len(promises) : promises[p].pc = "rejected")
          => ~loaded
    /\ \A c \in CallIds : calls[c].afterFailure => calls[c].fetched

\* C3: once a load has succeeded, every later load() call, with any url,
\* resolves with the instance without issuing a fetch, and data and loaded
\* stay unchanged from then on.
C3_LoadIdempotent ==
    /\ [](\A c \in CallIds :
            calls[c].afterSuccess =>
                (~calls[c].fetched /\ calls[c].state # "rejected" /\ loaded))
    /\ [][loaded => (loaded' /\ data' = data /\ fetchLog' = fetchLog)]_vars

\* C3 witness: after a load by fetch succeeded, a second load() call
\* resolved, and the only fetch is the first one
C3_Witness ==
    /\ Len(calls) >= 2
    /\ calls[1].fetched
    /\ calls[1].state = "resolved"
    /\ calls[2].afterSuccess
    /\ calls[2].state = "resolved"
    /\ fetchLog = <<DefaultDataUrl>>
    /\ loaded

---------------------------------------------------------------------------
(* Claims about lookup on the instance *)

LookupIds == 1 .. Len(lookupLog)

\* C4: in every state in which the table is not loaded (never loaded, load in
\* flight, load failed, data preloaded but load() not yet run), lookup returns
\* null for every input; it returns a value, it does not throw.
C4_NotLoadedNull ==
    \A i \in LookupIds : ~lookupLog[i].loaded => lookupLog[i].result = Null

\* C4 witness: a lookup of a code the preloaded table holds returned null
\* because load() had not been called yet
C4_Witness ==
    /\ Len(lookupLog) >= 1
    /\ ~lookupLog[1].loaded
    /\ lookupLog[1].dataPresent
    /\ lookupLog[1].zip = Num(1)
    /\ Key00001 \in DOMAIN data.tbl
    /\ lookupLog[1].result = Null
    /\ calls = <<>>

\* C7: given a loaded table, lookup is pure and idempotent: calls with the
\* same code, interleaved with lookups of other codes and with anything else
\* the instance does, return equal results (null for an absent key), and no
\* lookup changes the table, the loaded flag or the load promise.
C7_LookupPure ==
    /\ [](\A i, j \in LookupIds :
            (lookupLog[i].loaded /\ lookupLog[j].loaded
                /\ lookupLog[i].zip = lookupLog[j].zip)
              => lookupLog[i].result = lookupLog[j].result)
    /\ [](\A i \in LookupIds :
            (lookupLog[i].loaded /\ lookupLog[i].dataPresent) =>
                LET k == PaddedCut(TrimmedText(lookupLog[i].zip))
                IN  (lookupLog[i].result = Null) <=>
                        (~IsFiveDigits(k) \/ k \notin DOMAIN data.tbl))
    /\ [][lookupLog' # lookupLog =>
            (data' = data /\ loaded' = loaded /\ loadPromise' = loadPromise)]_vars

\* C7 witness: the same code was looked up twice on a loaded table, with a
\* lookup of another code in between, and both calls found the same result
C7_Witness ==
    /\ Len(lookupLog) >= 3
    /\ \A i \in 1 .. 3 : lookupLog[i].loaded
    /\ lookupLog[1].zip = lookupLog[3].zip
    /\ lookupLog[2].zip # lookupLog[1].zip
    /\ lookupLog[1].result.kind = "found"
    /\ lookupLog[3].result = lookupLog[1].result

---------------------------------------------------------------------------
(* Server: the routes *)

\* if (zips.length > 100)
MaxBatch == 100

\* raw codes sent to the single-lookup routes (a path parameter is a
\* non-empty string)
ParamZips == {Str(<<"1">>), Str(<<"1", "1", "1", "1", "1">>), Str(<<"a">>),
              Str(<<" ", "1", " ">>), Str(<<"1", "1", "1", "1", "1", "1">>),
              Str(<<"1", "2">>)}

\* req.query.zip: absent, empty, or a string
QueryZips == ParamZips \cup {Undefined, Str(<<>>)}

\* the elements of a zips array: any JSON scalar
BatchElems == {Str(<<"1">>), Str(<<"1", "1", "1", "1", "1">>), Str(<<"a">>),
               Num(0), JsNull}

\* an array of n entries that alternates a and b
Alternating(n, a, b) == [i \in 1 .. n |-> IF i % 2 = 1 THEN a ELSE b]

\* req.body.zips when it is an array
BatchArrays ==
    UNION {[1 .. n -> BatchElems] : n \in 0 .. MaxShortBatch}
      \cup {Alternating(n, a, b) :
              n \in {MaxBatch - 1, MaxBatch, MaxBatch + 1}, a \in BatchElems,
              b \in {Str(<<"1">>), Str(<<"a">>)}}

\* req.body.zips: missing, or a JSON value that is no array, or an array
BatchBodies ==
    {[zipsKind |-> k, zips |-> <<>>] : k \in {"missing", "null", "string", "number", "object"}}
      \cup {[zipsKind |-> "array", zips |-> a] : a \in BatchArrays}

\* res.status(400).json({ error })
BadRequest(error) ==
    [status |-> 400, kind |-> "error", result |-> Null, results |-> <<>>, error |-> error]

\* a slip: the error descriptor is sent with the default status
RespondLookup_Always200(result) ==
    [status |-> 200, kind |-> "result", result |-> result, results |-> <<>>, error |-> ""]

\* if (result.error) return res.status(404).json(result); res.json(result)
RespondLookup(result) ==
    IF result.error # ""
    THEN [status |-> 404, kind |-> "result", result |-> result, results |-> <<>>,
          error |-> ""]
    ELSE [status |-> 200, kind |-> "result", result |-> result, results |-> <<>>,
          error |-> ""]

\* app.get('/api/lookup/:zip')
GetLookupByParam(zip) ==
    /\ req' = [route |-> "GET /api/lookup/:zip", hasZip |-> TRUE, zip |-> zip,
               zipsKind |-> "missing", zips |-> <<>>]
    /\ res' = RespondLookup(lookupZip(zip))
    /\ lookupCalls' = 1
    /\ UNCHANGED <<zipData, clientVars, fnVars, metricsVars, bindVars>>

\* app.get('/api/lookup')
GetLookupByQuery(zip) ==
    /\ req' = [route |-> "GET /api/lookup", hasZip |-> zip # Undefined, zip |-> zip,
               zipsKind |-> "missing", zips |-> <<>>]
    /\ IF ~Truthy(zip)
       THEN /\ res' = BadRequest("Missing zip parameter")
            /\ lookupCalls' = 0
       ELSE /\ res' = RespondLookup(lookupZip(zip))
            /\ lookupCalls' = 1
    /\ UNCHANGED <<zipData, clientVars, fnVars, metricsVars, bindVars>>

\* a slip: a batch of exactly the maximum size is refused
BatchTooLong_OffByOne(zips) == Len(zips) >= MaxBatch

\* if (zips.length > 100)
BatchTooLong(zips) == Len(zips) > MaxBatch

\* a slip: only the found results are returned
BatchResults_FoundOnly(zips) ==
    SelectSeq([i \in 1 .. Len(zips) |-> lookupZip(zips[i])], LAMBDA r : r.kind = "found")

\* zips.map(zip => lookupZip(zip))
BatchResults(zips) == [i \in 1 .. Len(zips) |-> lookupZip(zips[i])]

\* app.post('/api/batch')
PostBatch(body) ==
    /\ req' = [route |-> "POST /api/batch", hasZip |-> FALSE, zip |-> JsNull,
               zipsKind |-> body.zipsKind, zips |-> body.zips]
    /\ IF body.zipsKind # "array"
       THEN /\ res' = BadRequest("Missing or invalid zips array")
            /\ lookupCalls' = 0
       ELSE IF BatchTooLong(body.zips)
       THEN /\ res' = BadRequest("Maximum 100 zips per request")
            /\ lookupCalls' = 0
       ELSE /\ res' = [status |-> 200, kind |-> "results", result |-> Null,
                       results |-> BatchResults(body.zips), error |-> ""]
            /\ lookupCalls' = Len(body.zips)
    /\ UNCHANGED <<zipData, clientVars, fnVars, metricsVars, bindVars>>

\* the server after start-up: the table is read, no request handled yet
InitServer ==
    /\ zipData \in Tables
    /\ req = NoRequest
    /\ res = NoResponse
    /\ lookupCalls = 0
    /\ IdleClient
    /\ IdleFn
    /\ IdleRest

NextServer == \/ \E zip \in ParamZips : GetLookupByParam(zip) /\ UNCHANGED handled
              \/ \E zip \in QueryZips : GetLookupByQuery(zip) /\ UNCHANGED handled
              \/ \E body \in BatchBodies : PostBatch(body) /\ UNCHANGED handled

SpecServer == InitServer /\ [][NextServer]_vars

---------------------------------------------------------------------------
(* Claims about the routes *)

\* looking up the raw code z ends in a found result
Resolves(z) ==
    /\ Truthy(z)
    /\ IsFiveDigits(PaddedCut(TrimmedText(z)))
    /\ PaddedCut(TrimmedText(z)) \in DOMAIN zipData

\* r is the outcome of looking up the raw code z: the found result of its
\* table entry, or an error descriptor { error, zip }
IsOutcomeOf(r, z) ==
    IF Resolves(z)
    THEN LET k == PaddedCut(TrimmedText(z))
         IN  /\ r.kind = "found"
             /\ r.zip = Str(k)
             /\ r.locations = LocationsOf(zipData[k])
             /\ r.hasMultiple = (Len(r.locations) > 1)
             /\ r.error = ""
    ELSE /\ r.kind = "error"
         /\ r.error # ""
         /\ r.zip \in {z, Str(PaddedCut(TrimmedText(z)))}
         /\ r.locations = <<>>

\* C8: POST /api/batch with a zips array of length n <= 100 responds 200 with
\* a results sequence of length exactly n in which results[i] is the outcome
\* of looking up zips[i] alone, a found result or an error descriptor
\* { error, zip }: order and length are preserved and an entry's failure does
\* not affect the others.
C8_BatchOrder ==
    (req.route = "POST /api/batch" /\ req.zipsKind = "array" /\ Len(req.zips) <= MaxBatch)
      => /\ res.status = 200
         /\ res.kind = "results"
         /\ Len(res.results) = Len(req.zips)
         /\ lookupCalls = Len(req.zips)
         /\ \A i \in 1 .. Len(req.zips) : IsOutcomeOf(res.results[i], req.zips[i])

\* C8 witness: a batch whose first entry fails and whose second is found
C8_Witness ==
    /\ req.route = "POST /api/batch"
    /\ Len(req.zips) = 2
    /\ res.status = 200
    /\ res.results[1].kind = "error"
    /\ res.results[2].kind = "found"

\* C9: POST /api/batch rejects a body whose zips is missing, not an array, or
\* longer than 100 entries with status 400 and performs no lookup for it (no
\* truncation, no partial results); an array of exactly 100 entries is
\* accepted.
C9_BatchRejected ==
    req.route = "POST /api/batch" =>
      /\ (req.zipsKind # "array" \/ Len(req.zips) > MaxBatch) =>
            /\ res.status = 400
            /\ res.kind = "error"
            /\ res.error # ""
            /\ res.results = <<>>
            /\ lookupCalls = 0
      /\ (req.zipsKind = "array" /\ Len(req.zips) = MaxBatch) =>
            (res.status = 200 /\ Len(res.results) = MaxBatch)

\* C9 witness: a batch of 101 entries was refused with status 400
C9_Witness ==
    /\ req.route = "POST /api/batch"
    /\ req.zipsKind = "array"
    /\ Len(req.zips) = MaxBatch + 1
    /\ res.status = 400
    /\ lookupCalls = 0

\* the answer of a single-lookup route to the raw code z
SingleLookupAnswer(z) ==
    /\ res.kind = "result"
    /\ IsOutcomeOf(res.result, z)
    /\ res.status \in {200, 404}
    /\ (res.status = 404) <=> ~Resolves(z)
    /\ (res.status = 404) <=> (res.result.kind = "error")
    /\ (res.status = 200) <=> (res.result.kind = "found")

\* C10: GET /api/lookup/:code responds 404 with a body { error, zip } exactly
\* when the code is invalid or absent from the table, and 200 with the Lookup
\* Result otherwise; GET /api/lookup?zip= behaves the same, except that a
\* missing zip parameter (absent, or present and empty) yields 400.
C10_LookupStatus ==
    /\ req.route = "GET /api/lookup/:zip" => SingleLookupAnswer(req.zip)
    /\ req.route = "GET /api/lookup" =>
          IF req.zip = Undefined \/ req.zip = Str(<<>>)
          THEN res.status = 400 /\ res.kind = "error" /\ res.error # "" /\ lookupCalls = 0
          ELSE SingleLookupAnswer(req.zip)

\* C10 witness: the query route answered 404 for a valid code the table does
\* not hold
C10_Witness ==
    /\ req.route = "GET /api/lookup"
    /\ res.status = 404
    /\ res.result.error = "Zip code not found"

\* ---------------------------------------------------------------------------
\* Metrics
\* ---------------------------------------------------------------------------

\* the bounds of the response-time samples and of the hourly buckets
MaxResponseTimes == 1000
MaxEndpointTimes == 100
MaxHours         == 168

\* obj[k] = v
Put(obj, k, v) == [x \in DOMAIN obj \cup {k} |-> IF x = k THEN v ELSE obj[x]]

\* delete obj[k]
Delete(obj, k) == [x \in DOMAIN obj \ {k} |-> obj[x]]

\* obj[k] || 0, for an object of counts
CountOf(obj, k) == IF k \in DOMAIN obj THEN obj[k] ELSE 0

\* a slip: the count starts over at every call
Increment_FromOne(obj, k) == Put(obj, k, 1)

\* obj[k] = (obj[k] || 0) + 1
Increment(obj, k) == Put(obj, k, CountOf(obj, k) + 1)

\* the not-a-number a count becomes when undefined is incremented
NaN == -1

\* v++ on the value of a property
PlusOne(v) == IF v = NaN THEN NaN ELSE v + 1

ApiLookupPrefix == <<"/", "a", "p", "i", "/", "l", "o", "o", "k", "u", "p", "/">>
ApiLookupZip    == ApiLookupPrefix \o <<":", "z", "i", "p">>

\* /\/api\/lookup\/\d+/ matches at position i of the path
MatchesAt(path, i) ==
    /\ i + Len(ApiLookupPrefix) <= Len(path)
    /\ SubSeq(path, i, i + Len(ApiLookupPrefix) - 1) = ApiLookupPrefix
    /\ path[i + Len(ApiLookupPrefix)] \in Digits

\* the end of the run of digits that starts at position i (\d+ is greedy)
RECURSIVE DigitsEnd(_, _)
DigitsEnd(path, i) == IF i < Len(path) /\ path[i + 1] \in Digits
                      THEN DigitsEnd(path, i + 1)
                      ELSE i

\* the pattern has no anchor: it matches anywhere in the path, and replace
\* replaces the leftmost match only
_normalizeEndpoint(path) ==
    LET starts == {i \in 1..Len(path) : MatchesAt(path, i)}
    IN  IF starts = {} THEN path
        ELSE LET i == CHOOSE j \in starts : \A k \in starts : j <= k
                 e == DigitsEnd(path, i + Len(ApiLookupPrefix))
             IN  SubSeq(path, 1, i - 1) \o ApiLookupZip \o SubSeq(path, e + 1, Len(path))

\* new Date().toISOString().slice(0, 13), at hour now of the wall clock: the
\* day and the hour of the day, in fixed width
_getCurrentHour(now) == <<now \div 24, now % 24>>

\* the order of the hour keys as strings
HourBefore(a, b) == a[1] < b[1] \/ (a[1] = b[1] /\ a[2] < b[2])

\* Object.keys(...).sort()[0]
OldestHour(obj) == CHOOSE k \in DOMAIN obj : \A j \in DOMAIN obj : ~HourBefore(j, k)

RECURSIVE _cleanOldHours(_)
_cleanOldHours(obj) == IF Cardinality(DOMAIN obj) > MaxHours
                       THEN _cleanOldHours(Delete(obj, OldestHour(obj)))
                       ELSE obj

\* a slip: a full array drops the new sample
PushCapped_DropNewest(arr, ms, max) == IF Len(arr) + 1 > max THEN arr ELSE Append(arr, ms)

\* push(ms), then one shift() when the array is longer than max
PushCapped(arr, ms, max) == IF Len(arr) + 1 > max THEN Tail(Append(arr, ms))
                            ELSE Append(arr, ms)

\* the hourly tracking of recordRequest
TrackHour(obj, hour) ==
    LET fresh   == ~(hour \in DOMAIN obj) \/ obj[hour] = 0 \/ obj[hour] = NaN
        cleaned == IF fresh THEN _cleanOldHours(Put(obj, hour, 0)) ELSE obj
    IN  IF hour \in DOMAIN cleaned THEN Put(cleaned, hour, PlusOne(cleaned[hour]))
        ELSE Put(cleaned, hour, NaN)

\* the samples of an endpoint
TimesOf(endpoint) == IF endpoint \in DOMAIN responseTimes.byEndpoint
                     THEN responseTimes.byEndpoint[endpoint]
                     ELSE <<>>

\* metrics.recordRequest(r, s, responseTimeMs), called at hour now
recordRequest(r, s, responseTimeMs, now) ==
    /\ nCalls' = nCalls + 1
    /\ clock' = now
    /\ UNCHANGED <<lookups, workload>>
    /\ IF r.path.t # "str"
       THEN \* req.path is not a string: path.replace raises
            /\ lastCall' = [NoCall EXCEPT !.op = "recordRequest", !.path = r.path,
                               !.method = r.method, !.status = s.statusCode,
                               !.ms = responseTimeMs, !.now = now,
                               !.outcome = "TypeError"]
            /\ UNCHANGED <<requests, responseTimes, hourlyRequests, arrivals>>
       ELSE LET endpoint == _normalizeEndpoint(r.path.s)
                hour     == _getCurrentHour(now)
            IN  /\ requests' =
                      [total      |-> requests.total + 1,
                       byEndpoint |-> Increment(requests.byEndpoint, endpoint),
                       byStatus   |-> Increment(requests.byStatus, s.statusCode),
                       byMethod   |-> Increment(requests.byMethod, r.method)]
                /\ hourlyRequests' = TrackHour(hourlyRequests, hour)
                /\ responseTimes' =
                      [total      |-> PushCapped(responseTimes.total, responseTimeMs,
                                                 MaxResponseTimes),
                       byEndpoint |-> Put(responseTimes.byEndpoint, endpoint,
                                          PushCapped(TimesOf(endpoint), responseTimeMs,
                                                     MaxEndpointTimes))]
                /\ arrivals' = Append(arrivals, [path |-> r.path.s, ms |-> responseTimeMs,
                                              now |-> now])
                /\ lastCall' = [NoCall EXCEPT !.op = "recordRequest", !.path = r.path,
                                   !.method = r.method, !.status = s.statusCode,
                                   !.ms = responseTimeMs, !.now = now,
                                   !.outcome = "returned"]

\* the bounds of the most-looked-up table
MaxTopZips  == 1000
KeptTopZips == 500

DigitValue(c) == CHOOSE d \in 0..9 : DigitChar(d) = c

RECURSIVE StringToNat(_)
StringToNat(s) == IF s = <<>> THEN 0
                  ELSE StringToNat(SubSeq(s, 1, Len(s) - 1)) * 10 + DigitValue(s[Len(s)])

\* a property key that is an array index ("90210", but not "00501"): such keys
\* are enumerated first, in ascending numeric order, and the others follow in
\* the order in which they were created (keys here have fewer than ten characters)
IsArrayIndex(key) ==
    /\ key # <<>>
    /\ Len(key) <= 9
    /\ \A i \in 1..Len(key) : key[i] \in Digits
    /\ Len(key) = 1 \/ key[1] # "0"

\* topZips[zip] = (topZips[zip] || 0) + 1
IncrementZip(tz, zip) ==
    IF \E p \in 1..Len(tz) : tz[p].zip = zip
    THEN [p \in 1..Len(tz) |-> IF tz[p].zip = zip
                               THEN [tz[p] EXCEPT !.count = @ + 1]
                               ELSE tz[p]]
    ELSE Append(tz, [zip |-> zip, count |-> 1])

\* topZips is kept as the list of its { zip, count } properties in creation
\* order; its entries, each with its place in that order
Placed(tz) == [p \in 1..Len(tz) |-> [zip |-> tz[p].zip, count |-> tz[p].count, at |-> p]]

\* a comes before b in Object.entries(topZips)
ListedBefore(a, b) ==
    IF IsArrayIndex(a.zip)
    THEN ~IsArrayIndex(b.zip) \/ StringToNat(a.zip) < StringToNat(b.zip)
    ELSE ~IsArrayIndex(b.zip) /\ a.at < b.at

\* a comes before b after the stable sort by (a, b) => b[1] - a[1]
SortedBefore(a, b) ==
    a.count > b.count \/ (a.count = b.count /\ ListedBefore(a, b))

\* a slip: the entries are cut without being sorted
_pruneTopZips_Unsorted(tz) ==
    SubSeq(tz, 1, IF Len(tz) < KeptTopZips THEN Len(tz) ELSE KeptTopZips)

\* Object.entries(topZips).sort((a, b) => b[1] - a[1]).slice(0, 500), made an
\* object again
_pruneTopZips(tz) ==
    LET sorted == SortSeq(Placed(tz), SortedBefore)
        kept   == IF Len(tz) < KeptTopZips THEN Len(tz) ELSE KeptTopZips
    IN  [i \in 1..kept |-> [zip |-> sorted[i].zip, count |-> sorted[i].count]]

\* a slip: the error marker is not looked at
IsFound_AnyResult(result) == result.kind # "null"

\* result && !result.error
IsFound(result) == result.kind # "null" /\ result.error = ""

\* metrics.recordLookup(zip, result)
recordLookup(zip, result) ==
    /\ nCalls' = nCalls + 1
    /\ lastCall' = [NoCall EXCEPT !.op = "recordLookup", !.zip = zip, !.result = result,
                       !.now = clock, !.outcome = "returned"]
    /\ UNCHANGED <<requests, responseTimes, hourlyRequests, clock, arrivals, workload>>
    /\ IF IsFound(result)
       THEN LET counted == IncrementZip(lookups.topZips, zip)
            IN  lookups' =
                   [total     |-> lookups.total + 1,
                    found     |-> lookups.found + 1,
                    notFound  |-> lookups.notFound,
                    topZips   |-> IF Len(counted) > MaxTopZips
                                  THEN _pruneTopZips(counted)
                                  ELSE counted,
                    topStates |-> IF result.locations # <<>>
                                  THEN Increment(lookups.topStates,
                                                 result.locations[1].state)
                                  ELSE lookups.topStates]
       ELSE lookups' = [lookups EXCEPT !.total = @ + 1, !.notFound = @ + 1]

\* ---------------------------------------------------------------------------
\* The metrics instance under the requests and lookups of a running server:
\* req is a request of express (path and method are strings), res its response,
\* and the clock does not run backwards
\* ---------------------------------------------------------------------------

MaxRecorded == 2

Health == <<"/", "h", "e", "a", "l", "t", "h">>

\* request paths: /health, /api/lookup/1, /api/lookup/11, /api/lookup/1a,
\* /api/lookup/a, /v/api/lookup/1
Paths == {Health,
          ApiLookupPrefix \o <<"1">>,
          ApiLookupPrefix \o <<"1", "1">>,
          ApiLookupPrefix \o <<"1", "a">>,
          ApiLookupPrefix \o <<"a">>,
          <<"/", "v">> \o ApiLookupPrefix \o <<"1">>}

Request(path, method) == [path |-> Str(path), method |-> method]
Response(statusCode)  == [statusCode |-> statusCode]

\* method and status of the exchanges
Exchanges == {<<"GET", 200>>, <<"GET", 404>>, <<"POST", 200>>}

ResponseTimes == {1, 2}

\* the lookups recorded: the code and what the lookup returned for it
RecordedLookups ==
    {[zip |-> Key00001, result |-> Found(Key00001, <<LocA>>, FALSE)],
     [zip |-> Key11111, result |-> Found(Key11111, <<LocB, LocC>>, TRUE)],
     [zip |-> Key00011, result |-> Null],
     [zip |-> Key00011, result |-> ErrorDescriptor("Zip code not found", Str(Key00011))]}

InitMetrics ==
    /\ IdleClient
    /\ IdleServer
    /\ IdleFn
    /\ IdleRest

RecordRequest ==
    /\ nCalls < MaxRecorded
    /\ \E path \in Paths, x \in Exchanges, ms \in ResponseTimes, now \in {clock, clock + 1} :
          recordRequest(Request(path, x[1]), Response(x[2]), ms, now)
    /\ UNCHANGED <<clientVars, serverVars, fnVars, handled, bindVars>>

RecordLookup ==
    /\ nCalls < MaxRecorded
    /\ \E l \in RecordedLookups : recordLookup(l.zip, l.result)
    /\ UNCHANGED <<clientVars, serverVars, fnVars, handled, bindVars>>

NextMetrics == RecordRequest \/ RecordLookup

SpecMetrics == InitMetrics /\ [][NextMetrics]_vars

\* ---------------------------------------------------------------------------
\* The express application as a whole: every route, with the metrics instance
\* of the process beside it
\* ---------------------------------------------------------------------------

MaxHandled == 2

\* res.json(body) of a route that looks nothing up
JsonBody(status, kind) == [status |-> status, kind |-> kind, result |-> Null,
                           results |-> <<>>, error |-> ""]

PlainRequest(route) == [route |-> route, hasZip |-> FALSE, zip |-> JsNull,
                        zipsKind |-> "missing", zips |-> <<>>]

\* app.get('/health')
GetHealth ==
    /\ req' = PlainRequest("GET /health")
    /\ res' = JsonBody(200, "health")
    /\ lookupCalls' = 0
    /\ UNCHANGED <<zipData, clientVars, fnVars, metricsVars, bindVars>>

\* app.get('/api')
GetApi ==
    /\ req' = PlainRequest("GET /api")
    /\ res' = JsonBody(200, "info")
    /\ lookupCalls' = 0
    /\ UNCHANGED <<zipData, clientVars, fnVars, metricsVars, bindVars>>

\* app.get('/api/states')
GetStates ==
    /\ req' = PlainRequest("GET /api/states")
    /\ res' = JsonBody(200, "states")
    /\ lookupCalls' = 0
    /\ UNCHANGED <<zipData, clientVars, fnVars, metricsVars, bindVars>>

\* app.use((req, res) => res.status(404).json({ error: 'Not found' }))
NotFound ==
    /\ req' = PlainRequest("other")
    /\ res' = [JsonBody(404, "error") EXCEPT !.error = "Not found"]
    /\ lookupCalls' = 0
    /\ UNCHANGED <<zipData, clientVars, fnVars, metricsVars, bindVars>>

\* one more request answered, with the lookupZip calls made for it
Answered ==
    /\ handled.requests < MaxHandled
    /\ handled' = [requests |-> handled.requests + 1,
                   lookups  |-> handled.lookups + lookupCalls']

NextApp == \/ GetHealth /\ Answered
           \/ GetApi /\ Answered
           \/ \E zip \in ParamZips : GetLookupByParam(zip) /\ Answered
           \/ \E zip \in QueryZips : GetLookupByQuery(zip) /\ Answered
           \/ \E body \in BatchBodies : PostBatch(body) /\ Answered
           \/ GetStates /\ Answered
           \/ NotFound /\ Answered

SpecApp == InitServer /\ [][NextApp]_vars

\* C11: the metrics aggregator wraps every request and every lookup of the
\* server: each request answered was recorded by one recordRequest call, so
\* requests.total is the number of requests answered, and each lookup made was
\* recorded by one recordLookup call, so lookups.total is the number of lookups
\* made. (The application never calls the aggregator: the counts stay at zero.)
C11_EveryRequestRecorded ==
    /\ requests.total = handled.requests
    /\ lookups.total = handled.lookups

\* ---------------------------------------------------------------------------
\* The metrics instance under arbitrary arguments
\* ---------------------------------------------------------------------------

\* req.path of any request object: a string, absent, null, a number
AnyPaths == {Str(Health), Str(ApiLookupPrefix \o <<"1">>), Undefined, JsNull, Num(1)}

\* a result that is an object with neither an error nor locations, {}
EmptyResult == [kind |-> "other", zip |-> Undefined, locations |-> <<>>,
                hasMultiple |-> FALSE, error |-> ""]

AnyLookups == RecordedLookups \cup {[zip |-> <<>>, result |-> EmptyResult]}

RecordAnyRequest ==
    /\ nCalls < MaxRecorded
    /\ \E path \in AnyPaths, x \in Exchanges, ms \in ResponseTimes, now \in {clock, clock + 1} :
          recordRequest([path |-> path, method |-> x[1]], Response(x[2]), ms, now)
    /\ UNCHANGED <<clientVars, serverVars, fnVars, handled, bindVars>>

RecordAnyLookup ==
    /\ nCalls < MaxRecorded
    /\ \E l \in AnyLookups : recordLookup(l.zip, l.result)
    /\ UNCHANGED <<clientVars, serverVars, fnVars, handled, bindVars>>

NextAnyArgs == RecordAnyRequest \/ RecordAnyLookup

SpecAnyArgs == InitMetrics /\ [][NextAnyArgs]_vars

\* C12: recordRequest and recordLookup never raise, whatever their arguments
\* (a request object without a path, a malformed result): every call made
\* returned normally.
C12_NeverRaises == lastCall.outcome \in {"none", "returned"}

\* ---------------------------------------------------------------------------
\* bind: one binding of a ZipFill instance to the elements of a form
\* ---------------------------------------------------------------------------

MaxEvents == 2

\* the options of a bind call: whether zipInput, cityInput, stateInput,
\* countyInput and citySelect resolve to an element, and which callbacks are given
BindOptions == [zipFound : BOOLEAN, cityInput : BOOLEAN, stateInput : BOOLEAN,
                countyInput : BOOLEAN, citySelect : BOOLEAN, onLookup : BOOLEAN,
                onMultiple : BOOLEAN, onNotFound : BOOLEAN]

\* the values typed into the zip input
ZipValues == {Key00000, Key00001, <<" ">> \o Key00001, Key11111,
              <<"0", "0", "0", "1">>, <<"a", "a", "a", "a", "a">>}

\* a call of one of the callbacks
Callback(name, result, zip, locations) ==
    [name |-> name, result |-> result, zip |-> zip, locations |-> locations]

\* _fillFields(location, cityEl, stateEl, countyEl) on text inputs
_fillFields(form, location, cityEl, stateEl, countyEl) ==
    [form EXCEPT !.city   = IF cityEl THEN location.city ELSE @,
                 !.state  = IF stateEl THEN location.state ELSE @,
                 !.county = IF countyEl THEN location.county ELSE @]

\* _populateSelect(selectEl, locations, cityEl, stateEl, countyEl)
_populateSelect(form, locations) ==
    [form EXCEPT !.options = locations, !.onchange = TRUE,
                 !.onchangeLocations = locations]

\* what handleInput does with the value of the zip input: the form afterwards,
\* the lookups made, the callbacks called, whether a field was written
handleInput(form) ==
    LET o   == bindOpts
        zip == Trim(form.zip)
        result == lookup(Str(zip))
        told   == IF o.onLookup THEN <<Callback("onLookup", result, <<>>, <<>>)>> ELSE <<>>
        fills  == o.cityInput \/ o.stateInput \/ o.countyInput
        filled == _fillFields(form, result.locations[1], o.cityInput, o.stateInput,
                              o.countyInput)
    IN  IF Len(zip) # 5
        THEN [form |-> [form EXCEPT !.selectDisplay = IF o.citySelect THEN "none" ELSE @],
              lookups |-> 0, callbacks |-> <<>>, wrote |-> FALSE]
        ELSE IF result.kind = "null"
        THEN [form |-> form, lookups |-> 1,
              callbacks |-> IF o.onNotFound
                            THEN Append(told, Callback("onNotFound", Null, zip, <<>>))
                            ELSE told,
              wrote |-> FALSE]
        ELSE IF result.hasMultiple
        THEN IF o.citySelect
             THEN [form |-> [_populateSelect(form, result.locations) EXCEPT
                                !.selectDisplay = "",
                                !.cityDisplay = IF o.cityInput THEN "none" ELSE @],
                   lookups |-> 1, callbacks |-> told, wrote |-> FALSE]
             ELSE IF o.onMultiple
             THEN [form |-> form, lookups |-> 1,
                   callbacks |-> Append(told, Callback("onMultiple", Null, <<>>,
                                                       result.locations)),
                   wrote |-> FALSE]
             ELSE [form |-> filled, lookups |-> 1, callbacks |-> told, wrote |-> fills]
        ELSE [form |-> IF o.citySelect
                       THEN [filled EXCEPT !.selectDisplay = "none",
                                           !.cityDisplay = IF o.cityInput THEN "" ELSE @]
                       ELSE filled,
              lookups |-> 1, callbacks |-> told, wrote |-> fills]

\* zf.bind(options)
Bind(options) ==
    /\ binding.ret = "none"
    /\ bindOpts' = options
    /\ binding' = IF ~options.zipFound
                  THEN [ret |-> "undefined", listening |-> FALSE, detached |-> FALSE]
                  ELSE [ret |-> "function", listening |-> TRUE, detached |-> FALSE]
    /\ UNCHANGED <<dom, lastEvent>>

\* the function bind returned is called
Unbind ==
    /\ binding.ret = "function"
    /\ ~binding.detached
    /\ binding' = [binding EXCEPT !.listening = FALSE, !.detached = TRUE]
    /\ UNCHANGED <<bindOpts, dom, lastEvent>>

\* an input or change event on the zip input, whose value is now v
ZipEvent(kind, v) ==
    /\ lastEvent.n < MaxEvents
    /\ LET typed == [dom EXCEPT !.zip = v]
           done  == IF binding.listening THEN handleInput(typed)
                    ELSE [form |-> typed, lookups |-> 0, callbacks |-> <<>>,
                          wrote |-> FALSE]
       IN  /\ dom' = done.form
           /\ lastEvent' = [kind |-> kind, n |-> lastEvent.n + 1,
                            afterDetach |-> binding.detached,
                            listened |-> binding.listening,
                            lookups |-> done.lookups, callbacks |-> done.callbacks,
                            wrote |-> done.wrote]
    /\ UNCHANGED <<bindOpts, binding>>

\* a change event on the city select, whose value is now that of option idx
\* (0 is the placeholder option, whose value is empty)
SelectCity(idx) ==
    /\ lastEvent.n < MaxEvents
    /\ bindOpts.citySelect
    /\ idx \in 0..Len(dom.options)
    /\ LET chosen == dom.onchange /\ idx >= 1 /\ idx <= Len(dom.onchangeLocations)
           loc    == dom.onchangeLocations[idx]
       IN  /\ dom' = IF chosen
                     THEN [_fillFields(dom, loc, FALSE, bindOpts.stateInput,
                                       bindOpts.countyInput)
                              EXCEPT !.city = IF bindOpts.cityInput THEN loc.city ELSE @]
                     ELSE dom
           /\ lastEvent' = [kind |-> "select", n |-> lastEvent.n + 1,
                            afterDetach |-> binding.detached,
                            listened |-> dom.onchange,
                            lookups |-> 0, callbacks |-> <<>>,
                            wrote |-> chosen /\ (bindOpts.cityInput \/ bindOpts.stateInput
                                                   \/ bindOpts.countyInput)]
    /\ UNCHANGED <<bindOpts, binding>>

\* an instance that loaded one of the tables, or one that has not loaded
InitBind ==
    /\ \/ \E t \in Tables : data = Data(t) /\ loaded = TRUE
       \/ data = NoData /\ loaded = FALSE
    /\ loadPromise = 0
    /\ promises = <<>>
    /\ calls = <<>>
    /\ fetchLog = <<>>
    /\ lookupLog = <<>>
    /\ IdleServer
    /\ IdleFn
    /\ IdleRest

OtherThanBind == <<clientVars, serverVars, fnVars, metricsVars, handled>>

NextBind == \/ \E options \in BindOptions : Bind(options) /\ UNCHANGED OtherThanBind
            \/ Unbind /\ UNCHANGED OtherThanBind
            \/ \E kind \in {"input", "change"}, v \in ZipValues :
                  ZipEvent(kind, v) /\ UNCHANGED OtherThanBind
            \/ \E idx \in 0..3 : SelectCity(idx) /\ UNCHANGED OtherThanBind

SpecBind == InitBind /\ [][NextBind]_vars

\* the callback name was called with these arguments on the last event
Called(name, result, zip, locations) ==
    \E i \in 1..Len(lastEvent.callbacks) :
        lastEvent.callbacks[i] = Callback(name, result, zip, locations)

\* the last event was an input or change event on the zip input of a bound
\* form, whose trimmed value has five characters
FiveCharEvent ==
    /\ lastEvent.kind \in {"input", "change"}
    /\ lastEvent.listened
    /\ Len(Trim(dom.zip)) = 5

\* the onLookup and onNotFound parts of C13
LookupAndNotFoundCalled ==
    FiveCharEvent =>
        LET zip    == Trim(dom.zip)
            result == lookup(Str(zip))
        IN  /\ bindOpts.onLookup => Called("onLookup", result, <<>>, <<>>)
            /\ bindOpts.onNotFound /\ result.kind = "null" =>
                  Called("onNotFound", Null, zip, <<>>)

\* C13: for a bound form, on every input or change event whose trimmed zip
\* value has length 5, onLookup is called with the lookup result (null
\* included), onNotFound is called with the zip when the result is null, and
\* onMultiple is called with the locations when the zip has multiple cities.
C13_Callbacks ==
    /\ LookupAndNotFoundCalled
    /\ FiveCharEvent =>
          LET result == lookup(Str(Trim(dom.zip)))
          IN  bindOpts.onMultiple /\ result.hasMultiple =>
                 Called("onMultiple", Null, <<>>, result.locations)

\* bind returned a function
ReturnsFunction == binding.ret # "undefined"

\* no event after the detach function was called had an effect
DetachedIsSilent ==
    lastEvent.afterDetach =>
        lastEvent.lookups = 0 /\ lastEvent.callbacks = <<>> /\ ~lastEvent.wrote

\* C14: bind(options) returns a detach function for every options value, and
\* once that function has been called no later event on the bound elements
\* causes a lookup, a callback, or a write to the city, state or county field
\* by this binding.
C14_Detach == ReturnsFunction /\ DetachedIsSilent

\* the server's answer s and the client's answer c to one raw input agree
SameAnswer(s, c) ==
    /\ (s.kind = "found") <=> (c.kind # "null")
    /\ s.kind = "found" =>
          /\ s.zip = c.zip
          /\ s.locations = c.locations
          /\ s.hasMultiple = c.hasMultiple

\* C15: lookupZip of the server and lookup of the client implement the same
\* contract: for every raw input and every table, lookupZip returns a found
\* result exactly when lookup on a loaded instance of the same table returns
\* non-null, and then zip, locations and hasMultiple are equal (the empty
\* string and the number 0 included).
C15_SameContract ==
    /\ fnRet.op = "lookupZip" => SameAnswer(fnRet.result, lookup(fnArg))
    /\ fnRet.op = "lookup" => SameAnswer(lookupZip(fnArg), fnRet.result)

\* the two agree on every input the server's guard lets through
SameContractOnTruthy == Truthy(fnArg) => C15_SameContract

\* ---------------------------------------------------------------------------
\* Claims about the counters of the metrics instance
\* ---------------------------------------------------------------------------

\* the sum of the counts of an object of counts
RECURSIVE SumOf(_)
SumOf(obj) == IF DOMAIN obj = {} THEN 0
              ELSE LET k == CHOOSE x \in DOMAIN obj : TRUE
                   IN  obj[k] + SumOf([x \in DOMAIN obj \ {k} |-> obj[x]])

\* from before to after, exactly one count grew, by one, and no other changed
OneMore(before, after) ==
    /\ DOMAIN before \subseteq DOMAIN after
    /\ \E k \in DOMAIN after :
          /\ after[k] = CountOf(before, k) + 1
          /\ \A j \in DOMAIN after \ {k} : j \in DOMAIN before /\ after[j] = before[j]

\* no count shrank or disappeared
NoneLess(before, after) ==
    \A k \in DOMAIN before : k \in DOMAIN after /\ after[k] >= before[k]

\* this step is a call of recordRequest
RecordRequestStep == nCalls' = nCalls + 1 /\ lastCall'.op = "recordRequest"

\* this step is a call of recordLookup
RecordLookupStep == nCalls' = nCalls + 1 /\ lastCall'.op = "recordLookup"

\* C16: each recordRequest call increases requests.total and exactly one entry
\* each of byEndpoint, byStatus and byMethod by one; after any sequence of
\* calls requests.total equals the sum of byEndpoint, of byStatus and of
\* byMethod; and no counter ever decreases.
C16_RequestCounters ==
    /\ [](/\ requests.total = SumOf(requests.byEndpoint)
          /\ requests.total = SumOf(requests.byStatus)
          /\ requests.total = SumOf(requests.byMethod))
    /\ [][/\ RecordRequestStep =>
                /\ requests'.total = requests.total + 1
                /\ OneMore(requests.byEndpoint, requests'.byEndpoint)
                /\ OneMore(requests.byStatus, requests'.byStatus)
                /\ OneMore(requests.byMethod, requests'.byMethod)
          /\ requests'.total >= requests.total
          /\ NoneLess(requests.byEndpoint, requests'.byEndpoint)
          /\ NoneLess(requests.byStatus, requests'.byStatus)
          /\ NoneLess(requests.byMethod, requests'.byMethod)]_vars

\* C16 witness: two requests were recorded for one endpoint, with one method
\* and different statuses
C16_Witness ==
    /\ requests.total = 2
    /\ \E e \in DOMAIN requests.byEndpoint : requests.byEndpoint[e] = 2
    /\ \E m \in DOMAIN requests.byMethod : requests.byMethod[m] = 2
    /\ Cardinality(DOMAIN requests.byStatus) = 2

\* a path of the shape /api/lookup/<digits>
IsLookupByCode(path) ==
    /\ Len(path) > Len(ApiLookupPrefix)
    /\ SubSeq(path, 1, Len(ApiLookupPrefix)) = ApiLookupPrefix
    /\ \A i \in Len(ApiLookupPrefix) + 1 .. Len(path) : path[i] \in Digits

\* the grouping key the claim gives a path
GroupingKey(path) == IF IsLookupByCode(path) THEN ApiLookupZip ELSE path

\* the paths recorded so far
RecordedPaths == {arrivals[i].path : i \in 1..Len(arrivals)}

\* the keys of the per-endpoint count mapping and of the per-endpoint sample
\* mapping are the keys in ks
EndpointKeysAre(ks) ==
    /\ DOMAIN requests.byEndpoint = ks
    /\ DOMAIN responseTimes.byEndpoint = ks

\* C19: every path of the shape /api/lookup/<digits> is grouped under the
\* single key /api/lookup/:zip, so lookup-by-code requests add at most one key
\* to the per-endpoint count mapping and to the per-endpoint sample mapping;
\* paths of other shapes are used unchanged.
C19_EndpointKeys == EndpointKeysAre({GroupingKey(p) : p \in RecordedPaths})

\* the part of C19 about paths of the shape /api/lookup/<digits>, and about
\* the paths in which the pattern finds no match
LookupPathsGrouped ==
    (\A p \in RecordedPaths : IsLookupByCode(p) \/ \A i \in 1..Len(p) : ~MatchesAt(p, i))
        => C19_EndpointKeys

\* C20: each recordLookup call increases lookups.total by one and exactly one
\* of found and notFound by one: found when the result is present and carries
\* no error marker, notFound otherwise. A not-found call changes no other
\* metrics state (topZips and topStates included). After any sequence of calls
\* total = found + notFound.
C20_LookupCounters ==
    /\ [](lookups.total = lookups.found + lookups.notFound)
    /\ [][RecordLookupStep =>
             /\ lookups'.total = lookups.total + 1
             /\ IF lastCall'.result.kind # "null" /\ lastCall'.result.kind # "error"
                THEN /\ lookups'.found = lookups.found + 1
                     /\ lookups'.notFound = lookups.notFound
                ELSE /\ lookups'.notFound = lookups.notFound + 1
                     /\ lookups'.found = lookups.found
                     /\ lookups'.topZips = lookups.topZips
                     /\ lookups'.topStates = lookups.topStates
                     /\ UNCHANGED <<requests, responseTimes, hourlyRequests>>]_vars

\* C20 witness: a found lookup, then one that returned an error descriptor
C20_Witness ==
    /\ lookups.found = 1
    /\ lookups.notFound = 1
    /\ lastCall.op = "recordLookup"
    /\ lastCall.result.kind = "error"

\* ---------------------------------------------------------------------------
\* The metrics instance over a long run of requests: the traffic follows a
\* pattern fixed at the start, and the clock does not run backwards
\* ---------------------------------------------------------------------------

MaxRun == 1010

ApiStates == <<"/", "a", "p", "i", "/", "s", "t", "a", "t", "e", "s">>

\* a pattern: over how many endpoints the requests rotate (/health, lookup by
\* code with a code of its own for every request, /api/states), and after how
\* many requests each the hour changes
Workloads == [endpoints : {1, 2, 3}, hourEvery : {1, 5}]

\* the n-th request of the run
PathOf(n) == CASE n % workload.endpoints = 0 -> Health
               [] n % workload.endpoints = 1 -> ApiLookupPrefix \o NatToString(n)
               [] n % workload.endpoints = 2 -> ApiStates
TimeOf(n) == (n % 7) + 1
HourOf(n) == n \div workload.hourEvery

InitLongRun ==
    /\ IdleClient
    /\ IdleServer
    /\ IdleFn
    /\ NewMetrics
    /\ workload \in Workloads
    /\ IdleApp
    /\ IdleBind

NextRequest ==
    /\ nCalls < MaxRun
    /\ recordRequest(Request(PathOf(nCalls), "GET"), Response(200), TimeOf(nCalls),
                     HourOf(nCalls))
    /\ UNCHANGED <<clientVars, serverVars, fnVars, handled, bindVars>>

SpecLongRun == InitLongRun /\ [][NextRequest]_vars

\* the last min(Len(s), max) elements of s
LastOf(s, max) == IF Len(s) <= max THEN s ELSE SubSeq(s, Len(s) - max + 1, Len(s))

\* the response times that arrived for the endpoint e, in arrival order
ArrivedFor(e) ==
    LET mine == SelectSeq(arrivals, LAMBDA a : GroupingKey(a.path) = e)
    IN  [i \in 1..Len(mine) |-> mine[i].ms]

ArrivedTimes == [i \in 1..Len(arrivals) |-> arrivals[i].ms]

\* C17: after any sequence of recordRequest calls, the global response-time
\* sequence holds exactly the most recent min(n, 1000) samples in arrival
\* order, each per-endpoint sequence holds exactly the most recent min(k, 100)
\* samples of that endpoint in arrival order, and neither bound is exceeded.
C17_RecentSamples ==
    /\ responseTimes.total = LastOf(ArrivedTimes, 1000)
    /\ Len(responseTimes.total) <= 1000
    /\ DOMAIN responseTimes.byEndpoint = {GroupingKey(p) : p \in RecordedPaths}
    /\ \A e \in DOMAIN responseTimes.byEndpoint :
          /\ responseTimes.byEndpoint[e] = LastOf(ArrivedFor(e), 100)
          /\ Len(responseTimes.byEndpoint[e]) <= 100

\* C17 witness: more than 1000 samples arrived, more than 100 of them for one
\* endpoint, and both sequences are full
C17_Witness ==
    /\ Len(arrivals) > 1000
    /\ Len(responseTimes.total) = 1000
    /\ \E e \in DOMAIN responseTimes.byEndpoint :
          /\ Len(ArrivedFor(e)) > 100
          /\ Len(responseTimes.byEndpoint[e]) = 100
    /\ Cardinality(DOMAIN responseTimes.byEndpoint) = 3

\* the hour of the wall clock an hour key stands for
HourOfKey(k) == k[1] * 24 + k[2]

\* the hours that have a bucket
BucketHours == {HourOfKey(k) : k \in DOMAIN hourlyRequests}

\* the key of the hour h
KeyOfHour(h) == CHOOSE k \in (0..(h \div 24)) \X (0..23) : HourOfKey(k) = h

\* C18: the bucket mapping never holds more than 168 keys after a
\* recordRequest returns, and when a request arrives in a 169th distinct hour
\* exactly one existing key, the oldest, is evicted and the bucket of the new
\* hour is present with count 1.
C18_HourlyRetention ==
    /\ [](Cardinality(DOMAIN hourlyRequests) <= 168)
    /\ [][(/\ RecordRequestStep
           /\ Cardinality(DOMAIN hourlyRequests) = 168
           /\ lastCall'.now \notin BucketHours)
          => LET oldest == CHOOSE h \in BucketHours : \A j \in BucketHours : h <= j
                 new    == KeyOfHour(lastCall'.now)
             IN  /\ DOMAIN hourlyRequests' =
                       (DOMAIN hourlyRequests \ {KeyOfHour(oldest)}) \cup {new}
                 /\ Cardinality(DOMAIN hourlyRequests') = 168
                 /\ hourlyRequests'[new] = 1
                 /\ \A k \in DOMAIN hourlyRequests \ {KeyOfHour(oldest)} :
                       hourlyRequests'[k] = hourlyRequests[k]]_vars

\* ---------------------------------------------------------------------------
\* The metrics instance over a long run of lookups: the codes looked up follow
\* a pattern fixed at the start
\* ---------------------------------------------------------------------------

MaxLookupRun == 1700

\* the code of five digits that stands for n
CodeOf(n) == PadStart(NatToString(n), 5, "0")

\* a pattern: every repeatEvery-th lookup is for one of forty popular codes
\* (a later band of popular codes comes up after 900 lookups), the others are
\* for a code not seen before, with and without a leading zero in turn
LookupWorkloads == [repeatEvery : {3, 4}]

\* the code of the n-th lookup of the run
ZipOf(n) ==
    IF n % workload.repeatEvery = 0
    THEN CodeOf(90000 + ((n \div workload.repeatEvery) % 40) + 40 * (n \div 900))
    ELSE IF n % 2 = 0 THEN CodeOf(n) ELSE CodeOf(10000 + n)

\* what the n-th lookup returned: every eleventh one found nothing
ResultOf(n) ==
    IF n % 11 = 5 THEN ErrorDescriptor("Zip code not found", Str(ZipOf(n)))
    ELSE Found(ZipOf(n), <<LocA>>, FALSE)

InitLookupRun ==
    /\ IdleClient
    /\ IdleServer
    /\ IdleFn
    /\ NewMetrics
    /\ workload \in LookupWorkloads
    /\ IdleApp
    /\ IdleBind

NextLookedUp ==
    /\ nCalls < MaxLookupRun
    /\ recordLookup(ZipOf(nCalls), ResultOf(nCalls))
    /\ UNCHANGED <<clientVars, serverVars, fnVars, handled, bindVars>>

SpecLookupRun == InitLookupRun /\ [][NextLookedUp]_vars

\* the codes of a popularity mapping
CodesOf(tz) == {tz[p].zip : p \in 1..Len(tz)}

\* the count a popularity mapping holds for a code it holds
CountIn(tz, zip) == tz[CHOOSE p \in 1..Len(tz) : tz[p].zip = zip].count

\* C21: after any recordLookup returns the code-popularity mapping holds at
\* most 1000 distinct codes; when a found lookup makes it exceed 1000 entries
\* it is pruned to exactly 500 entries, which are entries with the highest
\* counts (every retained count >= every discarded count) and keep their
\* counts unchanged.
C21_TopZipsBounded ==
    /\ [](/\ Len(lookups.topZips) <= 1000
          /\ Cardinality(CodesOf(lookups.topZips)) = Len(lookups.topZips))
    /\ [][(/\ RecordLookupStep
           /\ lastCall'.result.kind = "found"
           /\ Len(lookups.topZips) = 1000
           /\ lastCall'.zip \notin CodesOf(lookups.topZips))
          => LET new       == lastCall'.zip
                 after     == lookups'.topZips
                 retained  == CodesOf(after)
                 discarded == (CodesOf(lookups.topZips) \cup {new}) \ retained
                 was(z)    == IF z = new THEN 1 ELSE CountIn(lookups.topZips, z)
                 least     == after[CHOOSE p \in 1..Len(after) :
                                       \A q \in 1..Len(after) :
                                           after[p].count <= after[q].count].count
             IN  /\ Len(after) = 500
                 /\ Cardinality(retained) = 500
                 /\ retained \subseteq CodesOf(lookups.topZips) \cup {new}
                 /\ \A p \in 1..Len(after) : after[p].count = was(after[p].zip)
                 /\ \A d \in discarded : was(d) <= least]_vars

\* C21 witness: the mapping was pruned: it holds 500 codes after more than
\* 1000 lookups, codes looked up once and codes looked up more often among them
C21_Witness ==
    /\ lastCall.op = "recordLookup"
    /\ nCalls > 1000
    /\ Len(lookups.topZips) = 500
    /\ \E p, q \in 1..Len(lookups.topZips) :
          lookups.topZips[p].count = 1 /\ lookups.topZips[q].count > 1

\* ---------------------------------------------------------------------------
\* The statistics of the response times: a run of requests to one endpoint,
\* and one summary taken at some point of it
\* ---------------------------------------------------------------------------

MaxStatsRun == 120

\* a number that is a quotient of two integers
Quotient(a, b) == [num |-> a, den |-> b]
Zero == Quotient(0, 1)

\* arr[lo] + ... + arr[hi]
RECURSIVE SumRange(_, _, _)
SumRange(arr, lo, hi) ==
    IF lo > hi THEN 0
    ELSE IF lo = hi THEN arr[lo]
    ELSE LET mid == (lo + hi) \div 2
         IN  SumRange(arr, lo, mid) + SumRange(arr, mid + 1, hi)

\* arr.reduce((a, b) => a + b, 0)
SumSeq(arr) == SumRange(arr, 1, Len(arr))

\* _average(arr)
_average(arr) == IF Len(arr) = 0 THEN Zero ELSE Quotient(SumSeq(arr), Len(arr))

\* a slip: the index is rounded down
PercentileIndex_Floor(n, p) == ((p * n) \div 100) - 1

\* Math.ceil((p / 100) * sorted.length) - 1, for the percentiles the summary
\* asks for (50, 95, 99) and the lengths an array of samples can have, where
\* the arithmetic of doubles gives the exact value
PercentileIndex(n, p) == ((p * n + 99) \div 100) - 1

\* _percentile(arr, p): 0 stands for the number 0 of the empty case
_percentile(arr, p) ==
    IF Len(arr) = 0 THEN 0
    ELSE LET sorted == SortSeq(arr, LAMBDA a, b : a < b)
             idx    == PercentileIndex(Len(sorted), p)
         IN  sorted[(IF idx < 0 THEN 0 ELSE idx) + 1]

\* the response times of the run: ascending from 10 in steps of 10, descending,
\* scattered, or few values many times
StatsWorkloads == [samples : {"ascending", "descending", "scattered", "repeated"}]

SampleOf(n) == CASE workload.samples = "ascending"  -> 10 * (n + 1)
                 [] workload.samples = "descending" -> 10 * (MaxStatsRun + 1 - n)
                 [] workload.samples = "scattered"  -> ((n * 37) % 101) + 1
                 [] workload.samples = "repeated"   -> ((n * 2) % 3) + 1

InitStats ==
    /\ IdleClient
    /\ IdleServer
    /\ IdleFn
    /\ NewMetrics
    /\ workload \in StatsWorkloads
    /\ IdleApp
    /\ IdleBind

NextSample ==
    /\ fnRet.op = "none"
    /\ nCalls < MaxStatsRun
    /\ recordRequest(Request(Health, "GET"), Response(200), SampleOf(nCalls), 0)
    /\ UNCHANGED <<clientVars, serverVars, fnVars, handled, bindVars>>

\* getSummary().responseTimes: the samples are sorted in a copy
GetSummary ==
    /\ fnRet.op = "none"
    /\ fnRet' = [op |-> "getSummary", norm |-> Invalid,
                 result |-> [avg |-> _average(responseTimes.total),
                             p50 |-> _percentile(responseTimes.total, 50),
                             p95 |-> _percentile(responseTimes.total, 95),
                             p99 |-> _percentile(responseTimes.total, 99)]]
    /\ UNCHANGED <<clientVars, serverVars, fnArg, metricsVars, handled, bindVars>>

NextStats == NextSample \/ GetSummary

SpecStats == InitStats /\ [][NextStats]_vars

\* the least integer that is not below p * n / 100
CeilOfShare(n, p) == CHOOSE c \in 0..n : 100 * c >= p * n /\ 100 * (c - 1) < p * n

\* v is the element at index k (from 0) of the samples s sorted ascending
IsAtSortedIndex(s, k, v) ==
    /\ \E i \in 1..Len(s) : s[i] = v
    /\ Cardinality({i \in 1..Len(s) : s[i] < v}) <= k
    /\ Cardinality({i \in 1..Len(s) : s[i] <= v}) > k

\* v is percentile p of the samples s, as C22 states it
IsPercentile(s, p, v) ==
    IF s = <<>> THEN v = 0
    ELSE LET k == CeilOfShare(Len(s), p) - 1
         IN  IsAtSortedIndex(s, IF k < 0 THEN 0 ELSE k, v)

\* C22: for a non-empty sample sequence of length n and percentile p the
\* result is the element at index max(0, ceil((p/100)*n) - 1) of the samples
\* sorted ascending (for [10,20,30,40,50]: p50 = 30, p95 = 50); for an empty
\* sequence the average and every percentile are 0; computing it does not
\* reorder or change the stored samples.
C22_Percentile ==
    fnRet.op = "getSummary" =>
        LET s == responseTimes.total
            r == fnRet.result
        IN  /\ IsPercentile(s, 50, r.p50)
            /\ IsPercentile(s, 95, r.p95)
            /\ IsPercentile(s, 99, r.p99)
            /\ s = <<>> => r.avg.num = 0
            /\ s = <<10, 20, 30, 40, 50>> => r.p50 = 30 /\ r.p95 = 50
            /\ s = ArrivedTimes

\* C22 witness: a summary of more than a hundred samples that arrived in
\* descending order, whose three percentiles differ
C22_Witness ==
    /\ fnRet.op = "getSummary"
    /\ Len(responseTimes.total) > 100
    /\ responseTimes.total[1] > responseTimes.total[2]
    /\ fnRet.result.p50 < fnRet.result.p95
    /\ fnRet.result.p95 < fnRet.result.p99

\* ---------------------------------------------------------------------------
\* The build step: scripts/build-data.js, from the raw records to the lookup
\* table
\* ---------------------------------------------------------------------------

MaxRecords == 2

\* the same city and state as LocB, in another county
LocD == [city |-> "Schenectady", state |-> "NY", county |-> "Albany"]

\* zip_code of a raw record: a number, a code, a short text, a text of six
\* digits, a text that is no number
RawZipCodes == {Num(1), Str(Key00001), Str(<<"1", "1">>),
                Str(<<"1", "1", "1", "1", "1", "1">>), Str(<<"a">>)}

RawRecords == {[zip_code |-> z, city |-> l.city, state |-> l.state, county |-> l.county] :
                  z \in RawZipCodes, l \in {LocA, LocB, LocC, LocD}}

RawData == UNION {[1..n -> RawRecords] : n \in 0..MaxRecords}

\* String(record.zip_code).padStart(5, '0')
ZipKeyOf(record) == PadStart(JsString(record.zip_code), 5, "0")

\* lookup[zip].some(e => e.city === entry.city && e.state === entry.state)
IsDuplicate(present, entry) ==
    \E i \in 1..Len(present) :
        present[i].city = entry.city /\ present[i].state = entry.state

\* the body of the loop, for one record
AddRecord(table, record) ==
    LET zip     == ZipKeyOf(record)
        entry   == [city |-> record.city, state |-> record.state,
                    county |-> record.county]
        present == IF zip \in DOMAIN table THEN table[zip] ELSE <<>>
    IN  Put(table, zip, IF IsDuplicate(present, entry) THEN present
                        ELSE Append(present, entry))

\* the loop over the first n records of the raw data
RECURSIVE BuildLookup(_, _)
BuildLookup(raw, n) == IF n = 0 THEN EmptyMap
                       ELSE AddRecord(BuildLookup(raw, n - 1), raw[n])

InitBuild ==
    /\ IdleClient
    /\ IdleServer
    /\ fnArg \in RawData
    /\ fnRet = NoReturn
    /\ IdleRest

\* node scripts/build-data.js
Build ==
    /\ fnRet.op = "none"
    /\ fnRet' = [op |-> "build", norm |-> Invalid,
                 result |-> BuildLookup(fnArg, Len(fnArg))]
    /\ UNCHANGED <<clientVars, serverVars, fnArg, metricsVars, handled, bindVars>>

SpecBuild == InitBuild /\ [][Build]_vars

\* the Locations under the key k, in the order of their first occurrence in
\* the raw data, one for every (city, state) pair
FirstOccurrences(raw, k) ==
    LET first(i) == /\ ZipKeyOf(raw[i]) = k
                    /\ \A j \in 1..(i - 1) :
                          ~(/\ ZipKeyOf(raw[j]) = k
                            /\ raw[j].city = raw[i].city
                            /\ raw[j].state = raw[i].state)
        places   == SelectSeq([i \in 1..Len(raw) |-> i], first)
    IN  [p \in 1..Len(places) |->
            [city |-> raw[places[p]].city, state |-> raw[places[p]].state,
             county |-> raw[places[p]].county]]

\* the parts of C23 about the values of the table
ValuesAsBuilt ==
    fnRet.op = "build" =>
        \A k \in DOMAIN fnRet.result :
            LET locs == fnRet.result[k]
            IN  /\ Len(locs) >= 1
                /\ \A i, j \in 1..Len(locs) :
                      (locs[i].city = locs[j].city /\ locs[i].state = locs[j].state)
                          => i = j
                /\ locs = FirstOccurrences(fnArg, k)

\* C23: for every sequence of raw source records the lookup table produced by
\* the build step satisfies: every key matches ^\d{5}$, every value is a
\* non-empty sequence, no two Locations under one key share the same (city,
\* state) pair (the first occurrence is kept), and the Locations appear in the
\* order of their first occurrence in the source.
C23_BuiltTable ==
    /\ fnRet.op = "build" =>
          \A k \in DOMAIN fnRet.result :
              Len(k) = 5 /\ \A i \in 1..Len(k) : k[i] \in Digits
    /\ ValuesAsBuilt

\* ---------------------------------------------------------------------------
\* Claims about an instance constructed with preloaded data
\* ---------------------------------------------------------------------------

\* the instance was constructed with data: it holds data without being
\* loaded, or it held data when load() was called first
Preloaded == (data.present /\ ~loaded) \/ (calls # <<>> /\ calls[1].hadData)

\* C24: an instance constructed with preloaded data never issues a fetch;
\* load() on it resolves with the instance and marks it loaded using the given
\* data; and lookup returns non-null results only after that load() has run
\* (before it, lookup returns null like any not-loaded instance).
C24_PreloadedData ==
    /\ [](Preloaded =>
            /\ fetchLog = <<>>
            /\ loaded <=> calls # <<>>
            /\ \A c \in CallIds :
                  /\ ~calls[c].fetched
                  /\ calls[c].state \in {"pending", "resolved"}
                  /\ calls[c].err = NoError
                  /\ calls[c].follows # 0 =>
                        promises[calls[c].follows].pc = "resolved"
            /\ \A i \in LookupIds :
                  /\ lookupLog[i].dataPresent
                  /\ ~lookupLog[i].loaded => lookupLog[i].result = Null
                  /\ lookupLog[i].loaded =>
                        LET k == PaddedCut(TrimmedText(lookupLog[i].zip))
                        IN  (lookupLog[i].result # Null) <=>
                               (IsFiveDigits(k) /\ k \in DOMAIN data.tbl))
    /\ [][Preloaded => (data' = data /\ (loaded => loaded'))]_vars

\* C24 witness: on a preloaded instance a lookup returned null, then load()
\* resolved without a fetch, then a lookup of the same code found it
C24_Witness ==
    /\ Preloaded
    /\ Len(calls) >= 1
    /\ calls[1].state = "resolved"
    /\ fetchLog = <<>>
    /\ Len(lookupLog) >= 2
    /\ lookupLog[1].zip = lookupLog[2].zip
    /\ ~lookupLog[1].loaded
    /\ lookupLog[1].result = Null
    /\ lookupLog[2].result.kind = "found"

\* ---------------------------------------------------------------------------
\* Runs in which the wall clock steps back
\* ---------------------------------------------------------------------------

\* the number of recordRequest calls in a run, and the hour the run starts in
MaxClockRun == 400
FirstHour   == 200

\* a pattern: after how many requests each the hour changes, after how many
\* hours the wall clock is set back, and by how many hours
ClockWorkloads == [hourEvery : {1, 2}, backAfter : {50, 168}, backBy : {1, 200}]

\* the hour new Date() reports when the n-th request is recorded
ClockAt(n) ==
    LET tick == n \div workload.hourEvery
    IN  IF tick < workload.backAfter THEN FirstHour + tick
        ELSE FirstHour + tick - workload.backBy

InitClockRun ==
    /\ IdleClient
    /\ IdleServer
    /\ IdleFn
    /\ NewMetrics
    /\ workload \in ClockWorkloads
    /\ IdleApp
    /\ IdleBind

NextClockRequest ==
    /\ nCalls < MaxClockRun
    /\ recordRequest(Request(Health, "GET"), Response(200), TimeOf(nCalls),
                     ClockAt(nCalls))
    /\ UNCHANGED <<clientVars, serverVars, fnVars, handled, bindVars>>

SpecClockRun == InitClockRun /\ [][NextClockRequest]_vars

\* the hours in which a request was recorded
SeenHours == {arrivals[i].now : i \in 1..Len(arrivals)}

\* the sum of the buckets of the hours lo..hi
RECURSIVE SumBuckets(_, _)
SumBuckets(lo, hi) ==
    IF lo > hi THEN 0
    ELSE IF lo = hi THEN CountOf(hourlyRequests, _getCurrentHour(lo))
    ELSE LET mid == (lo + hi) \div 2
         IN  SumBuckets(lo, mid) + SumBuckets(mid + 1, hi)

BucketSum == SumBuckets(0, FirstHour + MaxClockRun)

\* the bucket of the hour just recorded is present and every bucket holds a
\* positive integer
BucketsCounted ==
    lastCall.op = "recordRequest" =>
       /\ _getCurrentHour(lastCall.now) \in DOMAIN hourlyRequests
       /\ \A k \in DOMAIN hourlyRequests : hourlyRequests[k] >= 1

\* the recorded hour's bucket counts one more request, or one when the key
\* is inserted, and no other bucket that is kept changes
BucketStep ==
    LET k == _getCurrentHour(lastCall'.now)
    IN  /\ k \in DOMAIN hourlyRequests'
        /\ hourlyRequests'[k] = IF k \in DOMAIN hourlyRequests
                                THEN hourlyRequests[k] + 1 ELSE 1
        /\ \A j \in DOMAIN hourlyRequests' \ {k} :
              /\ j \in DOMAIN hourlyRequests
              /\ hourlyRequests'[j] = hourlyRequests[j]

\* C25: after any sequence of recordRequest calls, for any sequence of hour
\* keys produced by the clock (not necessarily increasing), the bucket of the
\* hour just recorded is present and every value in the hourly bucket mapping
\* is a positive integer equal to the number of requests recorded under that
\* key since the key was last inserted; while at most 168 distinct hours have
\* been seen, the bucket values sum to requests.total.
C25_HourlyCounts ==
    /\ [](BucketsCounted /\ (Cardinality(SeenHours) <= 168 => BucketSum = requests.total))
    /\ [][RecordRequestStep => BucketStep]_vars

\* the part of C25 that holds: while at most 168 distinct hours have been
\* seen, in any order, every bucket is a positive count and the buckets sum
\* to requests.total
CountedWhileFewHours ==
    Cardinality(SeenHours) <= 168 => (BucketsCounted /\ BucketSum = requests.total)

\* a request was recorded in a 169th distinct hour that is older than the 168
\* hours held: its bucket is not a count and 169 keys are held
SetBackPastRetention ==
    /\ lastCall.op = "recordRequest"
    /\ Cardinality(SeenHours) = 169
    /\ hourlyRequests[_getCurrentHour(lastCall.now)] = NaN
    /\ Cardinality(DOMAIN hourlyRequests) = 169

===========================================================================
